---------------------------- MODULE Spec2Model ----------------------------
(***************************************************************************)
(* The DXF upload script of CNCWorkflowAutomation: one pass over the rows  *)
(* of the Grist table CNCPartsMaster that uploads each eligible row's      *)
(* local file to MinIO and writes the outcome back to the row.             *)
(*                                                                         *)
(* Two revisions are modelled, selected by the variable rev:               *)
(*   "main"  src/upload_dxf_to_minio.py                                    *)
(*   "copy"  src/unnamed/part_000  ("upload_dxf_to_minio - Copy.py")       *)
(*                                                                         *)
(* Python strings are sequences of one-character strings; Python values    *)
(* that a JSON record can hold are tagged records (PyNone, PyStr, ...).    *)
(* The external calls (the GET, each PATCH, each fput_object) either       *)
(* return or raise; a PATCH that raises leaves the table as it was.  The   *)
(* bucket set-up at import time and the log are left out.                  *)
(***************************************************************************)
EXTENDS Integers, Sequences, FiniteSets, TLC

VARIABLES
    rev,        \* the revision of the script that is run
    table,      \* the Grist table: row id -> fields
    files,      \* the local paths that are existing regular files
    run,        \* number of process invocations started so far
    pc,         \* position of the current process
    rows,       \* the records list fetched by grist_get_rows
    idx,        \* position of the for loop in rows
    pending,    \* the external call about to be made
    calls,      \* external calls of the current run, in order
    stored,     \* row id -> successful fput_object calls over all runs
    faults,     \* external calls that raised so far
    exitStatus, \* exit status of the last process that ended (-1: none)
    banner,     \* the fatal banner was printed by the last process
    raised,     \* what the exception the top-level handler caught came from
    sanIn,      \* input of sanitize_folder_name
    sanOut,     \* sanitize_folder_name(sanIn)
    sanAgain,   \* sanitize_folder_name(sanOut)
    sanPc       \* position of the sanitizer harness

vars == <<rev, table, files, run, pc, rows, idx, pending, calls, stored,
          faults, exitStatus, banner, raised,
          sanIn, sanOut, sanAgain, sanPc>>

procVars == <<rev, table, files, run, pc, rows, idx, pending, calls, stored,
              faults, exitStatus, banner, raised>>

sanVars == <<sanIn, sanOut, sanAgain, sanPc>>

-----------------------------------------------------------------------------
(* Bounds of the model *)

\* rows of the table
MaxRows == 2
\* process invocations in one behaviour
MaxRuns == 2
\* external calls that raise in one behaviour
MaxFaults == 2
\* length of the strings given to sanitize_folder_name
MaxLen == 4

-----------------------------------------------------------------------------
(* Characters and strings *)

UPPER == <<"A","B","C","D","E","F","G","H","I","J","K","L","M",
           "N","O","P","Q","R","S","T","U","V","W","X","Y","Z">>

LOWER == <<"a","b","c","d","e","f","g","h","i","j","k","l","m",
           "n","o","p","q","r","s","t","u","v","w","x","y","z">>

DIGITS == <<"0","1","2","3","4","5","6","7","8","9">>

Range(f) == {f[i] : i \in DOMAIN f}

UpperChars == Range(UPPER)

\* str.lower() on the letters A-Z
LowerOfUpper ==
    [c \in UpperChars |-> LOWER[CHOOSE i \in DOMAIN UPPER : UPPER[i] = c]]

\* str.lower() on one character
LowerChar(c) == IF c \in UpperChars THEN LowerOfUpper[c] ELSE c

\* str.lower()
Lower(s) == [i \in DOMAIN s |-> LowerChar(s[i])]

\* the characters the class [A-Za-z0-9\-_] matches
AllowedChars == Range(UPPER) \cup Range(LOWER) \cup Range(DIGITS) \cup {"-", "_"}

IsAllowed(c) == c \in AllowedChars

RECURSIVE LStrip(_, _)
LStrip(s, drop) ==
    IF s # <<>> /\ Head(s) \in drop THEN LStrip(Tail(s), drop) ELSE s

RECURSIVE RStrip(_, _)
RStrip(s, drop) ==
    IF s # <<>> /\ s[Len(s)] \in drop
    THEN RStrip(SubSeq(s, 1, Len(s) - 1), drop)
    ELSE s

\* name.strip(chars)
StripChars(s, drop) == RStrip(LStrip(s, drop), drop)

\* name.strip()
StripSpace(s) == StripChars(s, {" ", "\t", "\n"})

\* name.replace(old, new), old and new one character each
ReplaceChar(s, old, new) == [i \in DOMAIN s |-> IF s[i] = old THEN new ELSE s[i]]

\* re.sub(r"[^A-Za-z0-9\-_]", "_", name)
SubDisallowed(s) == [i \in DOMAIN s |-> IF IsAllowed(s[i]) THEN s[i] ELSE "_"]

\* re.sub(r"c+", "c", name)
RECURSIVE CollapseRuns(_, _)
CollapseRuns(s, c) ==
    IF Len(s) < 2 THEN s
    ELSE IF s[1] = c /\ s[2] = c
         THEN CollapseRuns(Tail(s), c)
         ELSE <<s[1]>> \o CollapseRuns(Tail(s), c)

\* a plausible slip: spaces replaced by underscores instead of hyphens
SpaceToUnderscore(s) == ReplaceChar(s, " ", "_")

\* name.replace(" ", "-")
SpaceToHyphen(s) == ReplaceChar(s, " ", "-")

\* a plausible slip: runs of hyphens left as they are
KeepHyphens(s) == s

\* re.sub(r"-+", "-", name)
CollapseHyphens(s) == CollapseRuns(s, "-")

\* re.sub(r"_+", "_", name)
CollapseUnderscores(s) == CollapseRuns(s, "_")

sanitize_folder_name(name) ==
    IF name = <<>> THEN <<>>
    ELSE LET n1 == StripSpace(name)
             n2 == SpaceToHyphen(n1)
             n3 == SubDisallowed(n2)
             n4 == CollapseUnderscores(n3)
             n5 == CollapseHyphens(n4)
         IN  StripChars(n5, {"_", "-"})

-----------------------------------------------------------------------------
(* Python values of a record's fields *)

PyNone == [t |-> "none", s |-> <<>>, n |-> 0]
PyStr(s) == [t |-> "str", s |-> s, n |-> 0]
PyInt(n) == [t |-> "int", s |-> <<>>, n |-> n]
PyBool(b) == [t |-> "bool", s |-> <<>>, n |-> IF b THEN 1 ELSE 0]

\* bool(v)
Truthy(v) ==
    CASE v.t = "none" -> FALSE
      [] v.t = "str"  -> v.s # <<>>
      [] OTHER        -> v.n # 0

\* v == 1
EqualsOne(v) == v.t \in {"int", "bool"} /\ v.n = 1

\* str(v) for the values the model uses (integers 0..9)
StrOf(v) ==
    CASE v.t = "none" -> <<"N","o","n","e">>
      [] v.t = "str"  -> v.s
      [] v.t = "int"  -> <<DIGITS[v.n + 1]>>
      [] OTHER        -> IF v.n = 1 THEN <<"T","r","u","e">>
                                    ELSE <<"F","a","l","s","e">>

\* (v or "") for a value that is None or a string
OrEmpty(v) == IF Truthy(v) THEN v.s ELSE <<>>

-----------------------------------------------------------------------------
(* Configuration read from the environment *)

MINIO_ENDPOINT == <<"m", ":", "9">>

MINIO_BUCKET == <<"c", "n", "c">>

-----------------------------------------------------------------------------
(* The words the script compares with and writes *)

STR_yes == <<"y","e","s">>
STR_y == <<"y">>
STR_true == <<"t","r","u","e">>
STR_success == <<"s","u","c","c","e","s","s">>
STR_Success == <<"S","u","c","c","e","s","s">>
STR_Failed == <<"F","a","i","l","e","d">>
STR_FileNotFound == <<"F","i","l","e"," ","N","o","t"," ","F","o","u","n","d">>
STR_DXF == <<"D","X","F">>
STR_http == <<"h","t","t","p",":","/","/">>

-----------------------------------------------------------------------------
(* process_parts: the values read from a row's fields *)

ReadyOf(f) == f.Ready

UploadFlagOf(f) == Lower(StrOf(f.Upload_to_Minio))

\* a plausible slip: the status compared without lowercasing it
UploadStatusRaw(f) == OrEmpty(f.Upload_Status)

UploadStatusOf(f) == Lower(OrEmpty(f.Upload_Status))

ProductPrefixOf(f) == StripSpace(OrEmpty(f.CNCProductPrefix))

\* a plausible slip: Ready tested for truth instead of compared with 1
ReadyTruthy(f) == Truthy(ReadyOf(f))

\* ready != 1 does not hold
ReadyIsOne(f) == EqualsOne(ReadyOf(f))

\* the SKIP RULES: the row is passed over
SkipRow(f) ==
    \/ ~ReadyIsOne(f)
    \/ UploadFlagOf(f) \notin {STR_yes, STR_y, STR_true}
    \/ UploadStatusOf(f) = STR_success
    \/ ~Truthy(f.DXF_Filename) \/ ~Truthy(f.FolderPath)
    \/ ProductPrefixOf(f) = <<>>

\* os.path.join(folder, filename) of posixpath
PathJoin(folder, filename) ==
    IF filename # <<>> /\ Head(filename) = "/" THEN filename
    ELSE IF folder = <<>> \/ folder[Len(folder)] = "/" THEN folder \o filename
    ELSE folder \o <<"/">> \o filename

LocalPath(f) == PathJoin(f.FolderPath.s, f.DXF_Filename.s)

\* os.path.isfile(local_path)
IsFile(path) == path \in files

\* minio_path of the main revision
minio_path(f) ==
    STR_DXF \o <<"/">> \o sanitize_folder_name(ProductPrefixOf(f))
            \o <<"/">> \o sanitize_folder_name(StrOf(f.Thickness))
            \o <<"/">> \o f.DXF_Filename.s

\* the bytes urllib.parse.quote escapes, among the characters of the model
PercentCode ==
    (" " :> <<"%","2","0">>) @@ ("#" :> <<"%","2","3">>) @@
    (":" :> <<"%","3","A">>) @@ ("\t" :> <<"%","0","9">>)

\* the characters quote(s) leaves as they are (safe = "/")
QuoteSafeChars ==
    Range(UPPER) \cup Range(LOWER) \cup Range(DIGITS) \cup {"_", ".", "-", "~", "/"}

IsQuoteSafe(c) == c \in QuoteSafeChars

\* urllib.parse.quote(s)
RECURSIVE quote(_)
quote(s) ==
    IF s = <<>> THEN <<>>
    ELSE (IF IsQuoteSafe(Head(s)) THEN <<Head(s)>> ELSE PercentCode[Head(s)])
         \o quote(Tail(s))

\* minio_url of the main revision
minio_url(key) ==
    STR_http \o MINIO_ENDPOINT \o <<"/">> \o MINIO_BUCKET \o <<"/">> \o quote(key)

\* minio_url of the copy revision: the key is not encoded
minio_url_copy(key) ==
    STR_http \o MINIO_ENDPOINT \o <<"/">> \o MINIO_BUCKET \o <<"/">> \o key

\* datetime.now().isoformat(): a stamp that tells the runs apart
IsoNow == <<"T", DIGITS[run + 1]>>

\* a plausible slip: the missing file recorded as a failed upload
FileNotFoundAsFailed ==
    ("Upload_Status" :> PyStr(STR_Failed)) @@ ("UploadedOn" :> PyNone)

FileNotFoundFields ==
    ("Upload_Status" :> PyStr(STR_FileNotFound)) @@ ("UploadedOn" :> PyNone)

\* a plausible slip: the failed upload written back without clearing UploadedOn
FailedFieldsStale == ("Upload_Status" :> PyStr(STR_Failed))

FailedFields ==
    ("Upload_Status" :> PyStr(STR_Failed)) @@ ("UploadedOn" :> PyNone)

SuccessFields(url) ==
    ("Upload_Status" :> PyStr(STR_Success)) @@ ("MinioPath" :> PyStr(url)) @@
    ("UploadedOn" :> PyStr(IsoNow))

\* the effect of a PATCH the service accepts: the fields given replace the row's
ApplyPatch(f, fields) ==
    [k \in DOMAIN f |-> IF k \in DOMAIN fields THEN fields[k] ELSE f[k]]

-----------------------------------------------------------------------------
(* The table and the local files a behaviour starts from *)

RowIds == 1 .. MaxRows

\* a row that passes every skip rule; its file name tells the rows apart
BaseRow(i) ==
    [ Ready            |-> PyInt(1),
      Upload_to_Minio  |-> PyStr(<<"Y","e","s">>),
      Upload_Status    |-> PyStr(<<>>),
      DXF_Filename     |-> PyStr(<<"p", " ", DIGITS[i + 1], ".", "d">>),
      FolderPath       |-> PyStr(<<"/", "d">>),
      Thickness        |-> PyStr(<<"3", "m", "m">>),
      CNCProductPrefix |-> PyStr(<<"B", " ", "A">>),
      MinioPath        |-> PyNone,
      UploadedOn       |-> PyNone ]

\* the values each user-edited column takes besides the base row's
OtherValues ==
    [ Ready            |-> {PyInt(0), PyBool(TRUE), PyStr(<<"1">>)},
      Upload_to_Minio  |-> {PyStr(<<"n","o">>), PyNone, PyBool(TRUE)},
      Upload_Status    |-> {PyNone, PyStr(<<"S","U","C","C","E","S","S">>),
                            PyStr(STR_Failed)},
      DXF_Filename     |-> {PyNone},
      FolderPath       |-> {PyStr(<<>>)},
      Thickness        |-> {PyInt(3), PyStr(<<" ", "1", ".", "5", "_">>)},
      CNCProductPrefix |-> {PyNone, PyStr(<<" ", "\t">>),
                            PyStr(<<" ", "a", "/", "-", "-", "b", "#">>)} ]

\* the rows of the table: the base row with at most one column changed
RowChoices(i) ==
    {BaseRow(i)} \cup
    UNION { {[BaseRow(i) EXCEPT ![k] = v] : v \in OtherValues[k]} :
            k \in DOMAIN OtherValues }

\* the tables: every row the base row, but for one row that is any choice
Tables ==
    UNION { {[i \in RowIds |-> IF i = j THEN r ELSE BaseRow(i)] : r \in RowChoices(j)} :
            j \in RowIds }

\* the local paths the rows can name
AllPaths == {PathJoin(<<"/", "d">>, BaseRow(i).DXF_Filename.s) : i \in RowIds}

\* the local files there are: any of the paths the rows can name
FileSets == SUBSET AllPaths

NoCall == [row |-> 0, kind |-> "", key |-> <<>>, fields |-> <<>>, inTry |-> FALSE]

Init ==
    /\ rev \in {"main", "copy"}
    /\ table \in Tables
    /\ files \in FileSets
    /\ run = 0
    /\ pc = "off"
    /\ rows = <<>>
    /\ idx = 0
    /\ pending = NoCall
    /\ calls = <<>>
    /\ stored = [i \in RowIds |-> 0]
    /\ faults = 0
    /\ exitStatus = -1
    /\ banner = FALSE
    /\ raised = ""
    /\ sanIn = <<>>
    /\ sanOut = <<>>
    /\ sanAgain = <<>>
    /\ sanPc = "off"

-----------------------------------------------------------------------------
(* The script *)

\* an exception leaves process_parts: the handler of the entry point logs it,
\* prints the banner, and the interpreter ends with the module
Fatal(cause) ==
    /\ raised' = cause
    /\ banner' = TRUE
    /\ exitStatus' = 0
    /\ pc' = "off"
    /\ pending' = NoCall

\* python upload_dxf_to_minio.py: the module's top level up to the entry point,
\* with the required environment present and the bucket there
Boot ==
    /\ pc = "off"
    /\ run < MaxRuns
    /\ run' = run + 1
    /\ calls' = <<>>
    /\ rows' = <<>>
    /\ idx' = 0
    /\ raised' = ""
    /\ banner' = FALSE
    /\ exitStatus' = -1
    /\ pc' = "fetch"
    /\ UNCHANGED <<rev, table, files, pending, stored, faults, sanVars>>

\* rows = grist_get_rows()
FetchOK ==
    /\ pc = "fetch"
    /\ rows' = [i \in RowIds |-> [id |-> i, fields |-> table[i]]]
    /\ idx' = 1
    /\ pc' = "loop"
    /\ UNCHANGED <<rev, table, files, run, pending, calls, stored, faults, exitStatus, banner, raised, sanVars>>

\* grist_get_rows() raises (raise_for_status, a transport error)
FetchRaises ==
    /\ pc = "fetch"
    /\ faults < MaxFaults
    /\ faults' = faults + 1
    /\ Fatal("fetch")
    /\ UNCHANGED <<rev, table, files, run, rows, idx, calls, stored, sanVars>>

\* one of the skip rules applies: continue
Skip ==
    /\ pc = "loop"
    /\ idx <= Len(rows)
    /\ SkipRow(rows[idx].fields)
    /\ idx' = idx + 1
    /\ UNCHANGED <<rev, table, files, run, pc, rows, pending, calls, stored,
                   faults, exitStatus, banner, raised, sanVars>>

\* the local file is missing: the File Not Found write-back is next
FileMissing ==
    /\ pc = "loop"
    /\ idx <= Len(rows)
    /\ ~SkipRow(rows[idx].fields)
    /\ ~IsFile(LocalPath(rows[idx].fields))
    /\ pending' = [row |-> rows[idx].id, kind |-> "fnf", key |-> <<>>,
                   fields |-> FileNotFoundFields, inTry |-> FALSE]
    /\ pc' = "patch"
    /\ UNCHANGED <<rev, table, files, run, rows, idx, calls, stored, faults, exitStatus, banner, raised, sanVars>>

\* the local file exists: the main revision builds the key and goes on to
\* upload; the copy revision reads safe_thk, which nothing assigns (NameError)
BuildPath ==
    /\ pc = "loop"
    /\ idx <= Len(rows)
    /\ ~SkipRow(rows[idx].fields)
    /\ IsFile(LocalPath(rows[idx].fields))
    /\ IF rev = "main"
       THEN /\ pending' = [row |-> rows[idx].id, kind |-> "put",
                           key |-> minio_path(rows[idx].fields),
                           fields |-> <<>>, inTry |-> TRUE]
            /\ pc' = "put"
            /\ UNCHANGED <<exitStatus, banner, raised>>
       ELSE Fatal("NameError")
    /\ UNCHANGED <<rev, table, files, run, rows, idx, calls, stored, faults, sanVars>>

\* the write-back that follows a stored file
AfterPutOK ==
    [row |-> pending.row, kind |-> "success", key |-> pending.key,
     fields |-> SuccessFields(IF rev = "main" THEN minio_url(pending.key)
                                              ELSE minio_url_copy(pending.key)),
     inTry |-> rev = "main"]

\* fput_object returns
PutOK ==
    /\ pc = "put"
    /\ calls' = Append(calls, [op |-> "put", row |-> pending.row, kind |-> "put",
                               key |-> pending.key, fields |-> <<>>, ok |-> TRUE])
    /\ stored' = [stored EXCEPT ![pending.row] = @ + 1]
    /\ pending' = AfterPutOK
    /\ pc' = "patch"
    /\ UNCHANGED <<rev, table, files, run, rows, idx, faults,
                   exitStatus, banner, raised, sanVars>>

\* the write-back that follows an upload that raised: the except branch (main),
\* the else branch after upload_to_minio returned False (copy)
AfterPutRaises ==
    [row |-> pending.row, kind |-> "failed", key |-> pending.key,
     fields |-> FailedFields, inTry |-> FALSE]

\* fput_object raises
PutRaises ==
    /\ pc = "put"
    /\ faults < MaxFaults
    /\ faults' = faults + 1
    /\ calls' = Append(calls, [op |-> "put", row |-> pending.row, kind |-> "put",
                               key |-> pending.key, fields |-> <<>>, ok |-> FALSE])
    /\ pending' = AfterPutRaises
    /\ pc' = "patch"
    /\ UNCHANGED <<rev, table, files, run, rows, idx, stored, exitStatus, banner, raised, sanVars>>

\* grist_update_row returns: the service has applied the fields
PatchOK ==
    /\ pc = "patch"
    /\ calls' = Append(calls, [op |-> "patch", row |-> pending.row,
                               kind |-> pending.kind, key |-> pending.key,
                               fields |-> pending.fields, ok |-> TRUE])
    /\ table' = [table EXCEPT ![pending.row] = ApplyPatch(@, pending.fields)]
    /\ pending' = NoCall
    /\ idx' = idx + 1
    /\ pc' = "loop"
    /\ UNCHANGED <<rev, files, run, rows, stored, faults, exitStatus, banner,
                   raised, sanVars>>

\* the except branch of the main revision's try catches a write-back's exception
PatchCaught == pending.inTry

\* grist_update_row raises: inside the try of the main revision the except
\* branch runs and writes Failed back; anywhere else the exception leaves
\* process_parts
PatchRaises ==
    /\ pc = "patch"
    /\ faults < MaxFaults
    /\ faults' = faults + 1
    /\ calls' = Append(calls, [op |-> "patch", row |-> pending.row,
                               kind |-> pending.kind, key |-> pending.key,
                               fields |-> pending.fields, ok |-> FALSE])
    /\ IF PatchCaught
       THEN /\ pending' = AfterPutRaises
            /\ pc' = "patch"
            /\ UNCHANGED <<exitStatus, banner, raised>>
       ELSE Fatal("patch")
    /\ UNCHANGED <<rev, table, files, run, rows, idx, stored, sanVars>>

\* the loop is over: "Completed Successfully" is logged and the module ends
Complete ==
    /\ pc = "loop"
    /\ idx > Len(rows)
    /\ pc' = "off"
    /\ exitStatus' = 0
    /\ UNCHANGED <<rev, table, files, run, rows, idx, pending, calls, stored,
                   faults, banner, raised, sanVars>>

Next ==
    \/ Boot
    \/ FetchOK
    \/ FetchRaises
    \/ Skip
    \/ FileMissing
    \/ BuildPath
    \/ PutOK
    \/ PutRaises
    \/ PatchOK
    \/ PatchRaises
    \/ Complete

Spec == Init /\ [][Next]_vars

-----------------------------------------------------------------------------
(* sanitize_folder_name on its own: every string up to MaxLen over SanAlphabet *)

SanAlphabet == {"a", "Z", "3", " ", "\t", "_", "-", "."}

SanInputs == UNION {[1 .. n -> SanAlphabet] : n \in 0 .. MaxLen}

SanInit ==
    /\ rev = "main"
    /\ table = [i \in RowIds |-> BaseRow(i)]
    /\ files = {}
    /\ run = 0
    /\ pc = "off"
    /\ rows = <<>>
    /\ idx = 0
    /\ pending = NoCall
    /\ calls = <<>>
    /\ stored = [i \in RowIds |-> 0]
    /\ faults = 0
    /\ exitStatus = -1
    /\ banner = FALSE
    /\ raised = ""
    /\ sanIn \in SanInputs
    /\ sanOut = <<>>
    /\ sanAgain = <<>>
    /\ sanPc = "in"

\* safe = sanitize_folder_name(name)
SanApply ==
    /\ sanPc = "in"
    /\ sanOut' = sanitize_folder_name(sanIn)
    /\ sanPc' = "out"
    /\ UNCHANGED <<procVars, sanIn, sanAgain>>

\* sanitize_folder_name(safe)
SanReapply ==
    /\ sanPc = "out"
    /\ sanAgain' = sanitize_folder_name(sanOut)
    /\ sanPc' = "again"
    /\ UNCHANGED <<procVars, sanIn, sanOut>>

SanNext == SanApply \/ SanReapply

SanSpec == SanInit /\ [][SanNext]_vars

-----------------------------------------------------------------------------
(* The statements about sanitize_folder_name *)

SafeChars == Range(UPPER) \cup Range(LOWER) \cup Range(DIGITS) \cup {"_", "-"}

Joiners == {"_", "-"}

Whitespace == {" ", "\t", "\n"}

\* C8: for every input s, sanitize_folder_name(s) holds only characters of
\* [A-Za-z0-9_-], neither starts nor ends with '_' or '-', has no two
\* consecutive '_' and no two consecutive '-', and sanitizing it again
\* returns it unchanged.
C8_SanitizerShape ==
    /\ sanPc \in {"out", "again"} =>
         /\ \A i \in DOMAIN sanOut : sanOut[i] \in SafeChars
         /\ sanOut # <<>> => sanOut[1] \notin Joiners /\ sanOut[Len(sanOut)] \notin Joiners
         /\ \A i \in 1 .. Len(sanOut) - 1 :
               ~(sanOut[i] \in Joiners /\ sanOut[i + 1] = sanOut[i])
    /\ sanPc = "again" => sanAgain = sanOut

\* C8's case: an input with a run of hyphens, a disallowed character and an
\* end to strip has been sanitized twice, and something is left of it
C8_Witness ==
    /\ sanPc = "again"
    /\ sanOut # <<>>
    /\ sanOut # sanIn
    /\ \E i \in 1 .. Len(sanIn) - 1 : sanIn[i] = "-" /\ sanIn[i + 1] = "-"
    /\ \E i \in DOMAIN sanIn : sanIn[i] = "."
    /\ sanIn[Len(sanIn)] \in Joiners

\* The pipeline of the specification, stated on positions: hyphenated is the
\* set of characters the second step turns into hyphens.
RefTrim(s, drop) ==
    LET kept == {i \in DOMAIN s : s[i] \notin drop}
    IN  IF kept = {} THEN <<>>
        ELSE SubSeq(s, CHOOSE i \in kept : \A j \in kept : i <= j,
                       CHOOSE i \in kept : \A j \in kept : j <= i)

RefMapChar(c, hyphenated) ==
    IF c \in hyphenated THEN "-" ELSE IF c \in SafeChars THEN c ELSE "_"

RECURSIVE RefSelect(_, _, _)
RefSelect(s, keep, i) ==
    IF i > Len(s) THEN <<>>
    ELSE (IF i \in keep THEN <<s[i]>> ELSE <<>>) \o RefSelect(s, keep, i + 1)

RefCollapse(s) ==
    RefSelect(s, {i \in DOMAIN s : ~(i > 1 /\ s[i] \in Joiners /\ s[i - 1] = s[i])}, 1)

RefPipeline(s, hyphenated) ==
    LET trimmed == RefTrim(s, Whitespace)
        mapped  == [i \in DOMAIN trimmed |-> RefMapChar(trimmed[i], hyphenated)]
    IN  RefTrim(RefCollapse(mapped), Joiners)

\* C9 as stated: sanitize_folder_name returns the pipeline's result with every
\* interior whitespace character (space, tab, newline alike) turned into a
\* hyphen.
C9_PipelineAllWhitespace ==
    sanPc \in {"out", "again"} => sanOut = RefPipeline(sanIn, Whitespace)

\* C9 amended: sanitize_folder_name returns the pipeline's result with every
\* interior space turned into a hyphen; an interior tab or newline is outside
\* [A-Za-z0-9_-] and becomes an underscore like any other such character.
C9_PipelineSpacesOnly ==
    sanPc \in {"out", "again"} => sanOut = RefPipeline(sanIn, {" "})

\* C9's case: an input with an interior space and an interior tab between
\* kept characters has been sanitized
C9_Witness ==
    /\ sanPc = "out"
    /\ Len(sanIn) = MaxLen
    /\ \E i, j \in 2 .. Len(sanIn) - 1 : sanIn[i] = " " /\ sanIn[j] = "\t"
    /\ sanIn[1] \in SafeChars \ Joiners
    /\ sanIn[Len(sanIn)] \in SafeChars \ Joiners
    /\ \E i \in DOMAIN sanOut : sanOut[i] = "-"
    /\ \E i \in DOMAIN sanOut : sanOut[i] = "_"

-----------------------------------------------------------------------------
(* The statements about a run *)

\* the calls of the current run made for row id r, in order
RowCalls(r) == SelectSeq(calls, LAMBDA c : c.row = r)

\* the eligibility predicate as the specification words it, on a row's fields
Ineligible(f) ==
    \/ ~EqualsOne(f.Ready)
    \/ Lower(StrOf(f.Upload_to_Minio)) \notin {<<"y","e","s">>, <<"y">>, <<"t","r","u","e">>}
    \/ Lower(OrEmpty(f.Upload_Status)) = <<"s","u","c","c","e","s","s">>
    \/ ~Truthy(f.DXF_Filename)
    \/ ~Truthy(f.FolderPath)
    \/ StripSpace(OrEmpty(f.CNCProductPrefix)) = <<>>

\* the local file of an eligible row is there
FileThere(f) == PathJoin(f.FolderPath.s, f.DXF_Filename.s) \in files

\* the loop has left position i of rows behind, or the run ended at it
Passed(i) == idx > i

EndedAt(i) == idx = i /\ pc = "off" /\ run > 0

WroteFileNotFound ==
    ("Upload_Status" :> PyStr(<<"F","i","l","e"," ","N","o","t"," ","F","o","u","n","d">>))
    @@ ("UploadedOn" :> PyNone)

WroteFailed ==
    ("Upload_Status" :> PyStr(<<"F","a","i","l","e","d">>)) @@ ("UploadedOn" :> PyNone)

\* C1: a fetched row that fails the eligibility predicate gets no upload and
\* no write-back in the run, whatever the other rows are.
C1_IneligibleUntouched ==
    \A i \in DOMAIN rows :
        Ineligible(rows[i].fields) =>
            /\ RowCalls(rows[i].id) = <<>>
            /\ pending.row # rows[i].id

\* C1's case: a run has passed an ineligible row and has made calls for
\* another row of the same list
C1_Witness ==
    \E i, j \in DOMAIN rows :
        /\ Ineligible(rows[i].fields)
        /\ Passed(i)
        /\ RowCalls(rows[j].id) # <<>>

\* C4: an eligible row whose file is missing gets exactly one write-back,
\* {Upload_Status: File Not Found, UploadedOn: null}, and no upload; the loop
\* then goes on to the next row; a later run on the same input, the file still
\* missing, issues the same write-back.
C4_FileNotFound ==
    \A i \in DOMAIN rows :
        LET f == rows[i].fields
            rc == RowCalls(rows[i].id)
        IN  (~Ineligible(f) /\ ~FileThere(f)) =>
              /\ Len(rc) <= 1
              /\ \A k \in DOMAIN rc : rc[k].op = "patch" /\ rc[k].fields = WroteFileNotFound
              /\ (idx = i /\ pc = "patch") =>
                    rc = <<>> /\ pending.row = rows[i].id /\ pending.fields = WroteFileNotFound
              /\ Passed(i) =>
                    /\ Len(rc) = 1 /\ rc[1].ok
                    /\ table[rows[i].id].Upload_Status = WroteFileNotFound["Upload_Status"]
                    /\ table[rows[i].id].UploadedOn = PyNone
              /\ (Len(rc) = 1 /\ rc[1].ok) => Passed(i)

\* C4's case: a second run has written File Not Found back for a row the first
\* run had written it back for, and has gone on to the row after it
C4_Witness ==
    \E i \in DOMAIN rows :
        /\ run = 2
        /\ ~Ineligible(rows[i].fields) /\ ~FileThere(rows[i].fields)
        /\ rows[i].fields.Upload_Status = WroteFileNotFound["Upload_Status"]
        /\ Len(RowCalls(rows[i].id)) = 1
        /\ Passed(i) /\ i < Len(rows)

\* C3: when fput_object raises for an eligible row whose file exists, the row
\* is written back with exactly {Upload_Status: Failed, UploadedOn: null}, the
\* loop goes on to the next row once that write-back returns, and the
\* exception the top-level handler catches is never the upload's.
C3_UploadFailureIsolated ==
    \A i \in DOMAIN rows :
        LET rc == RowCalls(rows[i].id)
        IN  (rc # <<>> /\ rc[1].op = "put" /\ ~rc[1].ok) =>
              /\ ~Ineligible(rows[i].fields) /\ FileThere(rows[i].fields)
              /\ Len(rc) = 1 =>
                    /\ idx = i /\ pc = "patch"
                    /\ pending.row = rows[i].id /\ pending.fields = WroteFailed
              /\ Len(rc) >= 2 =>
                    /\ Len(rc) = 2
                    /\ rc[2].op = "patch" /\ rc[2].fields = WroteFailed
                    /\ rc[2].ok => Passed(i) /\ table[rows[i].id].Upload_Status = WroteFailed["Upload_Status"]
                    /\ ~rc[2].ok => EndedAt(i) /\ raised = "patch"

\* C3's case: an upload raised, its Failed write-back returned, and the run
\* went on to make a call for the next row
C3_Witness ==
    \E i \in DOMAIN rows :
        LET rc == RowCalls(rows[i].id)
        IN  /\ Len(rc) = 2 /\ ~rc[1].ok /\ rc[2].ok
            /\ i < Len(rows)
            /\ RowCalls(rows[i + 1].id) # <<>>

\* C2: whenever a write-back (grist_update_row) raises, at any call site, the
\* exception leaves the loop and ends the run: it is the last call of the run.
C2_PatchFailureEndsRun ==
    \A k \in DOMAIN calls :
        (calls[k].op = "patch" /\ ~calls[k].ok) =>
            /\ k = Len(calls)
            /\ pc = "off"
            /\ raised = "patch"

\* C10: a Failed write-back is issued for a row only if fput_object raised for
\* that row in the run; a row whose file was stored is never recorded Failed.
C10_FailedOnlyAfterUploadRaised ==
    \A k \in DOMAIN calls :
        (calls[k].op = "patch" /\ calls[k].fields["Upload_Status"] = PyStr(STR_Failed)) =>
            \E j \in 1 .. k - 1 :
                calls[j].op = "put" /\ calls[j].row = calls[k].row /\ ~calls[j].ok

\* C6: when the top-level handler has caught an exception that left
\* process_parts, the process does not end with exit status 0.
C6_FatalExitNonZero ==
    (pc = "off" /\ raised # "") => exitStatus # 0

\* C5 as stated: whatever the external calls do, a row's file is stored at
\* most once over all runs.
C5_StoredAtMostOnce ==
    \A r \in RowIds : stored[r] <= 1

\* C5 amended: once the table holds Upload_Status Success for a row (any
\* letter case), no run stores that row's file again.
C5_NoUploadAfterSuccessRecorded ==
    [][\A r \in RowIds :
          Lower(OrEmpty(table[r].Upload_Status)) = <<"s","u","c","c","e","s","s">>
              => stored'[r] = stored[r]]_vars

\* C5's case: a row stored and written back as Success by the first run has
\* been passed by a later run without a call
C5_Witness ==
    \E i \in DOMAIN rows :
        /\ run >= 2
        /\ stored[rows[i].id] = 1
        /\ rows[i].fields.Upload_Status = PyStr(<<"S","u","c","c","e","s","s">>)
        /\ rows[i].fields.UploadedOn = PyStr(<<"T", "1">>)
        /\ Passed(i)
        /\ RowCalls(rows[i].id) = <<>>

\* the key and the URL the specification gives for a row
ExpectedKey(f) ==
    <<"D","X","F","/">> \o sanitize_folder_name(StripSpace(OrEmpty(f.CNCProductPrefix)))
        \o <<"/">> \o sanitize_folder_name(StrOf(f.Thickness))
        \o <<"/">> \o f.DXF_Filename.s

ExpectedUrl(f) ==
    <<"h","t","t","p",":","/","/">> \o MINIO_ENDPOINT \o <<"/">> \o MINIO_BUCKET
        \o <<"/">> \o quote(ExpectedKey(f))

\* C7: in each revision, an eligible row whose file exists and whose calls all
\* succeed has its file put under DXF/<prefix>/<thickness>/<filename>, both
\* segments sanitized, and is written back Success with a timestamp and the
\* URL http://<endpoint>/<bucket>/<percent-encoded key>.
C7_SuccessKeyAndUrl ==
    \A i \in DOMAIN rows :
        LET f == rows[i].fields
            rc == RowCalls(rows[i].id)
        IN  ( /\ ~Ineligible(f) /\ FileThere(f)
              /\ Passed(i) \/ EndedAt(i)
              /\ \A k \in DOMAIN rc : rc[k].ok ) =>
              /\ Len(rc) = 2
              /\ rc[1].op = "put" /\ rc[1].key = ExpectedKey(f)
              /\ rc[2].op = "patch"
              /\ DOMAIN rc[2].fields = {"Upload_Status", "MinioPath", "UploadedOn"}
              /\ rc[2].fields["Upload_Status"] = PyStr(<<"S","u","c","c","e","s","s">>)
              /\ rc[2].fields["MinioPath"] = PyStr(ExpectedUrl(f))
              /\ rc[2].fields["UploadedOn"].t = "str"

\* C7 for the main revision alone
C7_MainRevision == rev = "main" => C7_SuccessKeyAndUrl

=============================================================================
